---- MODULE Spec2Model ----
(***************************************************************************)
(* The Vulkan context of ash-gltf: construction (App::new, Swapchain::new, *)
(* Frame::new), device and queue-family selection, surface-format          *)
(* negotiation and teardown (impl Drop for App), against a driver that     *)
(* keeps a table of the objects it has handed out.                         *)
(***************************************************************************)
EXTENDS Integers, Sequences, FiniteSets, TLC

VARIABLES
    pc,               \* position of the program
    lifetime,         \* which construct-then-drop lifetime is running
    validation,       \* App::VALIDATION, a build-time switch
    objects,          \* the driver's object table, indexed by handle
    calls,            \* the destroy calls issued to the driver, in order
    step,             \* index of the statement of drop() that runs next
    instance,         \* App.instance
    debug_instance,   \* App.debug_instance (Option)
    debug_messenger,  \* App.debug_messenger (Option)
    physical_device,  \* App.physical_device
    surface,          \* App.surface.surface
    device,           \* App.device
    swapchain,        \* App.swapchain (struct Swapchain)
    frames,           \* App.frames
    devices,          \* the list enumerate_physical_devices returned, if any
    families,         \* the queue-family table the driver reported, if any
    queue_family,     \* what find_queue_family_indicies returns on it
    details,          \* SwapchainSupportDetails of Swapchain::new, if any
    surface_format,   \* the format choose_surface_format returned
    result,           \* how App::new ended
    window,           \* App.window, as the handler of App::run sees it
    event,            \* the event the handler of App::run was called with last
    exiting,          \* control_flow.exit() was called
    applied           \* a pure function applied on its own: inputs and result

vars == << pc, lifetime, validation, objects, calls, step, instance,
           debug_instance, debug_messenger, physical_device, surface, device,
           swapchain, frames, devices, families, queue_family, details,
           surface_format, result, window, event, exiting, applied >>

----------------------------------------------------------------------------
(* Bounds of the model. *)

MaxDevices == 2
MaxFamilies == 2
MaxFormats == 2
MaxMinImageCount == 1
MaxExtraImages == 1
MaxPresentModes == 2
MaxExtent == 2

(* Program constants. *)

FRAMES_IN_FLIGHT == 2

(* u32::MAX, the greatest value of an extent's width and height.  It is    *)
(* 4294967295 in the program; the greatest integer the model checker      *)
(* represents stands for it, since choose_extent only compares extents    *)
(* with it and never computes with it.                                    *)
U32_MAX == 2147483647

VK_FALSE == 0

(* The teardown scenario: two lifetimes in succession. *)
Lifetimes == 2

----------------------------------------------------------------------------
(* Values. *)

NULL == 0

None == [some |-> FALSE, value |-> 0]

Some(v) == [some |-> TRUE, value |-> v]

SeqsUpTo(S, n) == UNION { [1..k -> S] : k \in 0..n }

Range(s) == { s[k] : k \in 1..Len(s) }

(* vk::QueueFlags values a family can report, and the surface-support      *)
(* answer of the driver for the family.                                    *)
QueueFlagValues == { {"TRANSFER"}, {"GRAPHICS", "TRANSFER"} }

QueueFamilyProperties ==
    [ queue_count : 0..1, queue_flags : QueueFlagValues, surface_support : BOOLEAN ]

(* vk::SurfaceFormatKHR values a surface can report. *)
SurfaceFormats ==
    { [format |-> "B8G8R8_UNORM", color_space |-> "SRGB_NONLINEAR"],
      [format |-> "B8G8R8_UNORM", color_space |-> "EXTENDED_SRGB_LINEAR"],
      [format |-> "B8G8R8A8_SRGB", color_space |-> "SRGB_NONLINEAR"] }

PreferredFormat == [format |-> "B8G8R8_UNORM", color_space |-> "SRGB_NONLINEAR"]

NoFormat == [format |-> "UNDEFINED", color_space |-> "UNDEFINED"]

NoSwapchain == [swapchain |-> NULL, images |-> << >>, image_views |-> << >>]

NoResult == [tag |-> "none", what |-> ""]

(* The window App::new is given: not fullscreen. *)
NewWindow == [fullscreen |-> FALSE]

NoEvent == [kind |-> "none", window |-> "none", key |-> "none", state |-> "none"]

NotApplied == [fn |-> "none", returned |-> FALSE]

Ok == [tag |-> "Ok", what |-> ""]

Err(what) == [tag |-> "Err", what |-> what]

Panic(what) == [tag |-> "panic", what |-> what]

----------------------------------------------------------------------------
(* The driver: every create call appends one object to the table and       *)
(* returns its index as the handle; every destroy call marks it.           *)

(* What a create-info structure tells the driver about the new object. *)
NoInfo == [image |-> 0, format |-> "UNDEFINED", min_image_count |-> 0]

NewObject(kind, parents, info) ==
    [kind |-> kind, parents |-> parents, alive |-> TRUE, destroys |-> 0,
     info |-> info]

Create(objs, kind, parents) == Append(objs, NewObject(kind, parents, NoInfo))

Handle(objs) == Len(objs)

(* vkDestroyCommandPool frees the command buffers allocated from the pool. *)
Destroy(objs, h) ==
    [k \in 1..Len(objs) |->
        IF k = h
        THEN [objs[k] EXCEPT !.alive = FALSE, !.destroys = @ + 1]
        ELSE IF objs[k].kind = "command_buffer" /\ h \in objs[k].parents
                /\ objs[h].kind = "command_pool"
             THEN [objs[k] EXCEPT !.alive = FALSE, !.destroys = @ + 1]
             ELSE objs[k]]

(* The destroy calls among hs that end the object k: the calls on k, and,  *)
(* for a command buffer, the calls on the pool it was allocated from.      *)
DestroysOf(objs, hs, k) ==
    { i \in 1..Len(hs) :
        \/ hs[i] = k
        \/ /\ objs[k].kind = "command_buffer"
           /\ hs[i] \in objs[k].parents
           /\ objs[hs[i]].kind = "command_pool" }

(* Destroy called on every handle of hs in turn. *)
DestroyAll(objs, hs) ==
    [k \in 1..Len(objs) |->
        IF DestroysOf(objs, hs, k) = {}
        THEN objs[k]
        ELSE [objs[k] EXCEPT !.alive = FALSE,
                             !.destroys = @ + Cardinality(DestroysOf(objs, hs, k))]]

Call(op, h) == [op |-> op, handle |-> h]

----------------------------------------------------------------------------
(* Pure functions of the program. *)

(* A slip in the index: the last enumerated device instead of the first. *)
pick_physical_device_last(devs) ==
    IF Len(devs) = 0
    THEN [tag |-> "Err", what |-> "No GPU???", value |-> NULL]
    ELSE [tag |-> "Ok", what |-> "", value |-> devs[Len(devs)]]

(* The error of an empty device list: anyhow!("No GPU???"). *)
NoDeviceFound == "No GPU???"

(* App::pick_physical_device, after enumerate_physical_devices succeeded. *)
pick_physical_device(devs) ==
    IF Len(devs) = 0
    THEN [tag |-> "Err", what |-> NoDeviceFound, value |-> NULL]
    ELSE [tag |-> "Ok", what |-> "", value |-> devs[1]]

(* The condition without the test of the queue count. *)
FamilyMatches_AnyCount(family, queue_type) ==
    queue_type \in family.queue_flags

(* The condition of the loop of App::find_queue_family_indicies. *)
FamilyMatches(family, queue_type) ==
    family.queue_count > 0 /\ queue_type \in family.queue_flags

(* The loop of App::find_queue_family_indicies from (0-based) index i on. *)
RECURSIVE FindFrom(_, _, _)
FindFrom(properties, queue_type, i) ==
    IF i >= Len(properties) THEN None
    ELSE IF FamilyMatches(properties[i + 1], queue_type) THEN Some(i)
         ELSE FindFrom(properties, queue_type, i + 1)

find_queue_family_indicies(properties, queue_type) ==
    FindFrom(properties, queue_type, 0)

(* The loop of choose_surface_format from (0-based) index i on: the first  *)
(* element equal to the preferred format, if any.                          *)
RECURSIVE FormatFrom(_, _, _)
FormatFrom(formats, preferred_format, i) ==
    IF i >= Len(formats) THEN None
    ELSE IF formats[i + 1] = preferred_format THEN Some(formats[i + 1])
         ELSE FormatFrom(formats, preferred_format, i + 1)

(* SwapchainSupportDetails::choose_surface_format.  self.formats[0] on an  *)
(* empty vector is an index out of bounds: None stands for that panic.     *)
choose_surface_format(formats, preferred_format) ==
    LET found == FormatFrom(formats, preferred_format, 0)
    IN  IF found.some THEN found
        ELSE IF Len(formats) = 0 THEN None
             ELSE Some(formats[1])

(* SwapchainSupportDetails::optimal_min_image_count. *)
optimal_min_image_count(caps) == caps.min_image_count + 1

PresentModes == {"IMMEDIATE", "MAILBOX", "FIFO"}

(* SwapchainSupportDetails::choose_present_mode: the loop returns the      *)
(* element equal to the preferred mode; after the loop FIFO is returned.   *)
choose_present_mode(present_modes, preferred_present_mode) ==
    IF \E k \in 1..Len(present_modes) :
            present_modes[k] = preferred_present_mode
    THEN preferred_present_mode
    ELSE "FIFO"

(* u32::clamp (Ord::clamp): asserts min <= max, a panic (None) otherwise.   *)
clamp(v, min, max) ==
    IF min > max THEN None
    ELSE IF v < min THEN Some(min)
    ELSE IF v > max THEN Some(max)
    ELSE Some(v)

(* The test of choose_extent for a surface that leaves the size to the     *)
(* caller: the width of the current extent is u32::MAX.                    *)
CallerDefined(caps) == caps.current_extent.width = U32_MAX

(* choose_extent without the test: the requested size is always clamped.   *)
choose_extent_clamped(caps, width, height) ==
    LET w == clamp(width, caps.min_image_extent.width,
                   caps.max_image_extent.width)
        h == clamp(height, caps.min_image_extent.height,
                   caps.max_image_extent.height)
    IN  IF w.some /\ h.some
        THEN Some([width |-> w.value, height |-> h.value])
        ELSE None

(* SwapchainSupportDetails::choose_extent; None is the panic of a clamp.   *)
choose_extent(caps, width, height) ==
    IF ~CallerDefined(caps)
    THEN Some(caps.current_extent)
    ELSE LET w == clamp(width, caps.min_image_extent.width,
                        caps.max_image_extent.width)
             h == clamp(height, caps.min_image_extent.height,
                        caps.max_image_extent.height)
         IN  IF w.some /\ h.some
             THEN Some([width |-> w.value, height |-> h.value])
             ELSE None

SeverityBits == {"VERBOSE", "INFO", "WARNING", "ERROR"}

MessageTypeBits == {"GENERAL", "VALIDATION", "PERFORMANCE"}

(* The match of debug_callback with arms that test whether the bit is set. *)
severity_level_contains(message_severity) ==
    IF "VERBOSE" \in message_severity THEN "Debug"
    ELSE IF "INFO" \in message_severity THEN "Info"
    ELSE IF "WARNING" \in message_severity THEN "Warn"
    ELSE IF "ERROR" \in message_severity THEN "Error"
    ELSE "Warn"

(* The match of debug_callback on message_severity: an arm matches the     *)
(* flags value that is exactly one severity bit.                           *)
severity_level(message_severity) ==
    CASE message_severity = {"VERBOSE"} -> "Debug"
      [] message_severity = {"INFO"} -> "Info"
      [] message_severity = {"WARNING"} -> "Warn"
      [] message_severity = {"ERROR"} -> "Error"
      [] OTHER -> "Warn"

(* App::debug_callback: what is logged and what is returned.               *)
debug_callback(message_severity, message_type) ==
    [log |-> [level |-> severity_level(message_severity),
              message_type |-> message_type],
     ret |-> VK_FALSE]

----------------------------------------------------------------------------
(* Inputs the driver can answer with. *)

DeviceLists ==
    { l \in SeqsUpTo(1..MaxDevices, MaxDevices) :
        \A a, b \in 1..Len(l) : a # b => l[a] # l[b] }

FamilyTables == SeqsUpTo(QueueFamilyProperties, MaxFamilies)

FormatLists == SeqsUpTo(SurfaceFormats, MaxFormats)

ImageIds(n) == [k \in 1..n |-> k]

PresentModeLists == SeqsUpTo(PresentModes, MaxPresentModes)

(* Extents: small sizes and u32::MAX.                                      *)
ExtentValues == (0..MaxExtent) \cup {U32_MAX}

Extents == [width : ExtentValues, height : ExtentValues]

RequestedSizes == 0..MaxExtent

SurfaceCapabilities ==
    [current_extent : Extents,
     min_image_extent : [width : 0..MaxExtent, height : 0..MaxExtent],
     max_image_extent : Extents]

----------------------------------------------------------------------------
(* The App before App::new is called. *)
InitApp ==
    /\ pc = "start"
    /\ lifetime = 1
    /\ validation \in BOOLEAN
    /\ objects = << >>
    /\ calls = << >>
    /\ step = 1
    /\ instance = NULL
    /\ debug_instance = None
    /\ debug_messenger = None
    /\ physical_device = NULL
    /\ surface = NULL
    /\ device = NULL
    /\ swapchain = NoSwapchain
    /\ frames = << >>
    /\ devices = None
    /\ families = None
    /\ queue_family = None
    /\ details = None
    /\ surface_format = NoFormat
    /\ result = NoResult
    /\ window = NewWindow
    /\ event = NoEvent
    /\ exiting = FALSE

Init == InitApp /\ applied = NotApplied

(* The fields and locals of App::new that hold driver handles. *)
handles == << instance, debug_instance, debug_messenger, physical_device,
              surface, device, swapchain, frames >>

(* What the driver answered to the queries of App::new. *)
answers == << devices, families, queue_family, details, surface_format >>

(* What App::run reads and writes besides the App's handles. *)
loopState == << window, event, exiting >>

(* App::new leaves through `?` (an Err) or through a failed unwrap (a      *)
(* panic).  The locals go out of scope; the ash handles they hold have no  *)
(* Drop implementation, so no destroy call is issued.                      *)
Abort(r, objs) ==
    /\ pc' = (IF r.tag = "panic" THEN "panicked" ELSE "failed")
    /\ result' = r
    /\ objects' = objs
    /\ instance' = NULL
    /\ debug_instance' = None
    /\ debug_messenger' = None
    /\ physical_device' = NULL
    /\ surface' = NULL
    /\ device' = NULL
    /\ swapchain' = NoSwapchain
    /\ frames' = << >>
    /\ UNCHANGED << lifetime, validation, calls, step >>

----------------------------------------------------------------------------
(* App::new, one action per fallible step. *)

NewLoadEntry ==
    /\ pc = "start"
    /\ \E ok \in BOOLEAN :
        IF ok
        THEN /\ pc' = "entry"
             /\ UNCHANGED << lifetime, validation, objects, calls, step,
                             handles, result >>
        ELSE Abort(Err("Entry::load"), objects)
    /\ UNCHANGED answers
    /\ UNCHANGED << loopState, applied >>

NewRequiredExtensions ==
    /\ pc = "entry"
    /\ \E ok \in BOOLEAN :
        IF ok
        THEN /\ pc' = "extensions"
             /\ UNCHANGED << lifetime, validation, objects, calls, step,
                             handles, result >>
        ELSE Abort(Err("enumerate_required_extensions"), objects)
    /\ UNCHANGED answers
    /\ UNCHANGED << loopState, applied >>

NewCreateInstance ==
    /\ pc = "extensions"
    /\ \E ok \in BOOLEAN :
        IF ok
        THEN /\ objects' = Create(objects, "instance", {})
             /\ instance' = Handle(objects')
             /\ pc' = "instance"
             /\ UNCHANGED << lifetime, validation, calls, step, debug_instance,
                             debug_messenger, physical_device, surface, device,
                             swapchain, frames, result >>
        ELSE Abort(Err("create_instance"), objects)
    /\ UNCHANGED answers
    /\ UNCHANGED << loopState, applied >>

(* An App::new that attaches the messenger whatever VALIDATION says. *)
NewDebugMessenger_Always ==
    /\ pc = "instance"
    /\ \E ok \in BOOLEAN :
        IF ok
        THEN /\ objects' = Create(objects, "debug_messenger", {instance})
             /\ debug_instance' = Some(instance)
             /\ debug_messenger' = Some(Handle(objects'))
             /\ pc' = "debug"
             /\ UNCHANGED << lifetime, validation, calls, step, instance,
                             physical_device, surface, device, swapchain,
                             frames, result >>
        ELSE Abort(Err("create_debug_utils_messenger"), objects)
    /\ UNCHANGED answers
    /\ UNCHANGED << loopState, applied >>

NewDebugMessenger ==
    /\ pc = "instance"
    /\ IF validation
       THEN \E ok \in BOOLEAN :
            IF ok
            THEN /\ objects' = Create(objects, "debug_messenger", {instance})
                 /\ debug_instance' = Some(instance)
                 /\ debug_messenger' = Some(Handle(objects'))
                 /\ pc' = "debug"
                 /\ UNCHANGED << lifetime, validation, calls, step, instance,
                                 physical_device, surface, device, swapchain,
                                 frames, result >>
            ELSE Abort(Err("create_debug_utils_messenger"), objects)
       ELSE /\ debug_instance' = None
            /\ debug_messenger' = None
            /\ pc' = "debug"
            /\ UNCHANGED << lifetime, validation, objects, calls, step,
                            instance, physical_device, surface, device,
                            swapchain, frames, result >>
    /\ UNCHANGED answers
    /\ UNCHANGED << loopState, applied >>

NewPickPhysicalDevice ==
    /\ pc = "debug"
    /\ \E ok \in BOOLEAN :
        IF ok
        THEN \E devs \in DeviceLists :
             LET r == pick_physical_device(devs)
             IN  /\ devices' = Some(devs)
                 /\ IF r.tag = "Ok"
                    THEN /\ physical_device' = r.value
                         /\ pc' = "picked"
                         /\ UNCHANGED << lifetime, validation, objects, calls,
                                         step, instance, debug_instance,
                                         debug_messenger, surface, device,
                                         swapchain, frames, result >>
                    ELSE Abort(Err(r.what), objects)
        ELSE /\ Abort(Err("enumerate_physical_devices"), objects)
             /\ UNCHANGED devices
    /\ UNCHANGED << families, queue_family, details, surface_format >>
    /\ UNCHANGED << loopState, applied >>

NewCreateSurface ==
    /\ pc = "picked"
    /\ \E ok \in BOOLEAN :
        IF ok
        THEN /\ objects' = Create(objects, "surface", {instance})
             /\ surface' = Handle(objects')
             /\ pc' = "surface"
             /\ UNCHANGED << lifetime, validation, calls, step, instance,
                             debug_instance, debug_messenger, physical_device,
                             device, swapchain, frames, result >>
        ELSE Abort(Err("create_surface"), objects)
    /\ devices' = None
    /\ UNCHANGED << families, queue_family, details, surface_format >>
    /\ UNCHANGED << loopState, applied >>

NewFindQueueFamily ==
    /\ pc = "surface"
    /\ \E table \in FamilyTables :
        LET found == find_queue_family_indicies(table, "GRAPHICS")
        IN  /\ families' = Some(table)
            /\ queue_family' = found
            /\ IF found.some
               THEN /\ pc' = "queue_family"
                    /\ UNCHANGED << lifetime, validation, objects, calls, step,
                                    handles, result >>
               ELSE Abort(Panic("unwrap on None"), objects)
    /\ UNCHANGED << devices, details, surface_format >>
    /\ UNCHANGED << loopState, applied >>

NewCreateDevice ==
    /\ pc = "queue_family"
    /\ \E ok \in BOOLEAN :
        IF ok
        THEN /\ objects' = Create(objects, "device", {instance})
             /\ device' = Handle(objects')
             /\ pc' = "device"
             /\ UNCHANGED << lifetime, validation, calls, step, instance,
                             debug_instance, debug_messenger, physical_device,
                             surface, swapchain, frames, result >>
        ELSE Abort(Err("create_device"), objects)
    /\ UNCHANGED answers
    /\ UNCHANGED << loopState, applied >>

----------------------------------------------------------------------------
(* Swapchain::new, called by App::new. *)

SupportQueries ==
    << "get_physical_device_surface_capabilities",
       "get_physical_device_surface_formats",
       "get_physical_device_surface_present_modes" >>

(* SwapchainSupportDetails::new: three queries, each may fail. *)
SwapchainQuerySupport ==
    /\ pc = "device"
    /\ \E failing \in 0..Len(SupportQueries) :
        IF failing = 0
        THEN \E min \in 1..MaxMinImageCount, fmts \in FormatLists :
             /\ details' = Some([caps |-> [min_image_count |-> min],
                                  formats |-> fmts])
             /\ pc' = "details"
             /\ UNCHANGED << lifetime, validation, objects, calls, step,
                             handles, result >>
        ELSE /\ Abort(Err(SupportQueries[failing]), objects)
             /\ UNCHANGED details
    /\ families' = None
    /\ UNCHANGED << devices, queue_family, surface_format >>
    /\ UNCHANGED << loopState, applied >>

SwapchainChooseFormat ==
    /\ pc = "details"
    /\ LET chosen == choose_surface_format(details.value.formats, PreferredFormat)
       IN  IF chosen.some
           THEN /\ surface_format' = chosen.value
                /\ pc' = "format"
                /\ UNCHANGED << lifetime, validation, objects, calls, step,
                                handles, result >>
           ELSE /\ Abort(Panic("index out of bounds"), objects)
                /\ UNCHANGED surface_format
    /\ UNCHANGED << devices, families, queue_family, details >>
    /\ UNCHANGED << loopState, applied >>

SwapchainCreate ==
    /\ pc = "format"
    /\ \E ok \in BOOLEAN :
        IF ok
        THEN /\ objects' = Append(objects,
                    NewObject("swapchain", {device, surface},
                        [image |-> 0, format |-> surface_format.format,
                         min_image_count |->
                             optimal_min_image_count(details.value.caps)]))
             /\ swapchain' = [swapchain EXCEPT !.swapchain = Handle(objects')]
             /\ pc' = "swapchain"
             /\ UNCHANGED << lifetime, validation, calls, step, instance,
                             debug_instance, debug_messenger, physical_device,
                             surface, device, frames, result >>
        ELSE Abort(Err("create_swapchain"), objects)
    /\ details' = None
    /\ UNCHANGED << devices, families, queue_family, surface_format >>
    /\ UNCHANGED << loopState, applied >>

(* get_swapchain_images: the driver made at least min_image_count images. *)
SwapchainGetImages ==
    /\ pc = "swapchain"
    /\ \E ok \in BOOLEAN :
        IF ok
        THEN \E extra \in 0..MaxExtraImages :
             /\ swapchain' = [swapchain EXCEPT !.images =
                    ImageIds(objects[swapchain.swapchain].info.min_image_count
                             + extra)]
             /\ pc' = "images"
             /\ UNCHANGED << lifetime, validation, objects, calls, step,
                             instance, debug_instance, debug_messenger,
                             physical_device, surface, device, frames, result >>
        ELSE Abort(Err("get_swapchain_images"), objects)
    /\ UNCHANGED answers
    /\ UNCHANGED << loopState, applied >>

(* create_image_views that makes every view for the first image. *)
RECURSIVE create_image_views_FirstImage(_, _, _, _, _, _)
create_image_views_FirstImage(objs, dev, chain, images, format, n) ==
    IF n = 0 THEN objs
    ELSE Append(create_image_views_FirstImage(objs, dev, chain, images,
                                              format, n - 1),
                NewObject("image_view", {dev, chain},
                    [image |-> images[1], format |-> format,
                     min_image_count |-> 0]))

(* Swapchain::create_image_views on the first n images: one view each. *)
RECURSIVE create_image_views(_, _, _, _, _, _)
create_image_views(objs, dev, chain, images, format, n) ==
    IF n = 0 THEN objs
    ELSE Append(create_image_views(objs, dev, chain, images, format, n - 1),
                NewObject("image_view", {dev, chain},
                    [image |-> images[n], format |-> format,
                     min_image_count |-> 0]))

(* The map of create_image_views: the call on image number `created + 1`   *)
(* fails and its unwrap panics, or all calls succeed.                      *)
SwapchainCreateImageViews ==
    /\ pc = "images"
    /\ \E created \in 0..Len(swapchain.images) :
        LET objs == create_image_views(objects, device, swapchain.swapchain,
                        swapchain.images, surface_format.format, created)
        IN  IF created = Len(swapchain.images)
            THEN /\ objects' = objs
                 /\ swapchain' = [swapchain EXCEPT !.image_views =
                        [k \in 1..created |-> Len(objects) + k]]
                 /\ pc' = "views"
                 /\ UNCHANGED << lifetime, validation, calls, step, instance,
                                 debug_instance, debug_messenger,
                                 physical_device, surface, device, frames,
                                 result >>
            ELSE Abort(Panic("create_image_view unwrap"), objs)
    /\ UNCHANGED answers
    /\ UNCHANGED << loopState, applied >>

----------------------------------------------------------------------------
(* Frame::new, called FRAMES_IN_FLIGHT times by App::new. *)

FrameCalls ==
    << "create_command_pool", "allocate_command_buffers",
       "create_semaphore", "create_semaphore" >>

(* A Frame::new that allocates the command buffer before it creates the    *)
(* pool the buffer is allocated from.                                      *)
FrameObjects_BufferFirst(objs, dev, n) ==
    LET pool == Len(objs) + 2
        o1 == IF n >= 1 THEN Create(objs, "command_buffer", {dev, pool})
              ELSE objs
        o2 == IF n >= 2 THEN Create(o1, "command_pool", {dev}) ELSE o1
        o3 == IF n >= 3 THEN Create(o2, "semaphore", {dev}) ELSE o2
        o4 == IF n >= 4 THEN Create(o3, "semaphore", {dev}) ELSE o3
    IN  o4

(* The driver objects Frame::new has created when its first n calls        *)
(* succeeded: the pool, its command buffer, the two semaphores.            *)
FrameObjects(objs, dev, n) ==
    LET pool == Len(objs) + 1
        o1 == IF n >= 1 THEN Create(objs, "command_pool", {dev}) ELSE objs
        o2 == IF n >= 2 THEN Create(o1, "command_buffer", {dev, pool}) ELSE o1
        o3 == IF n >= 3 THEN Create(o2, "semaphore", {dev}) ELSE o2
        o4 == IF n >= 4 THEN Create(o3, "semaphore", {dev}) ELSE o3
    IN  o4

(* A Frame whose two semaphores are one handle. *)
Frame_SameSemaphore(base) ==
    [swapchain_sem |-> base + 3, rendering_sem |-> base + 3,
     command_pool |-> base + 1, main_command_buffer |-> base + 2]

(* The struct Frame::new returns when objs had `base` objects before it. *)
Frame(base) ==
    [swapchain_sem |-> base + 3, rendering_sem |-> base + 4,
     command_pool |-> base + 1, main_command_buffer |-> base + 2]

(* One iteration of the for_each of App::new: the queue family is looked   *)
(* up again and unwrapped, then Frame::new runs and its result is          *)
(* unwrapped; inside, the pool and the buffer are unwrapped too.  The      *)
(* queue-family properties of a physical device never change, so the       *)
(* lookup scans the table it scanned before device creation and returns    *)
(* what it returned then.                                                  *)
NewPushFrame ==
    /\ pc = "views"
    /\ Len(frames) < FRAMES_IN_FLIGHT
    /\ LET found == queue_family
       IN  /\ queue_family' = found
           /\ IF found.some
              THEN \E succeeded \in 0..Len(FrameCalls) :
                   LET objs == FrameObjects(objects, device, succeeded)
                   IN  IF succeeded = Len(FrameCalls)
                       THEN /\ objects' = objs
                            /\ frames' = Append(frames, Frame(Len(objects)))
                            /\ UNCHANGED << pc, lifetime, validation, calls,
                                            step, instance, debug_instance,
                                            debug_messenger, physical_device,
                                            surface, device, swapchain,
                                            result >>
                       ELSE Abort(Panic(FrameCalls[succeeded + 1]), objs)
              ELSE Abort(Panic("unwrap on None"), objects)
    /\ UNCHANGED << devices, families, details, surface_format >>
    /\ UNCHANGED << loopState, applied >>

(* Ok(Self { .. }) *)
NewReturn ==
    /\ pc = "views"
    /\ Len(frames) = FRAMES_IN_FLIGHT
    /\ pc' = "constructed"
    /\ result' = Ok
    /\ queue_family' = None
    /\ surface_format' = NoFormat
    /\ UNCHANGED << lifetime, validation, objects, calls, step, handles,
                    devices, families, details >>
    /\ UNCHANGED << loopState, applied >>

----------------------------------------------------------------------------
(* App::run: the event loop and its handler. *)

Keys == {"Escape", "F11", "KeyA", "Unidentified"}

(* The events the event loop can hand to the closure of App::run: window   *)
(* events for the App's window or for another window id, and events that   *)
(* are no window events.  The key "Unidentified" is a physical key that is *)
(* no PhysicalKey::Code.                                                   *)
Events ==
    [kind : {"CloseRequested", "RedrawRequested", "Resized"},
     window : {"own", "other"}, key : {"none"}, state : {"none"}]
    \cup [kind : {"KeyboardInput"}, window : {"own", "other"}, key : Keys,
          state : {"Pressed", "Released"}]
    \cup [kind : {"AboutToWait"}, window : {"none"}, key : {"none"},
          state : {"none"}]

(* The closure of App::run without the test of the window id. *)
HandleEvent_AnyWindow(win, ev) ==
    CASE ev.kind = "CloseRequested" -> [exit |-> TRUE, window |-> win]
      [] ev.kind = "RedrawRequested" -> [exit |-> FALSE, window |-> win]
      [] ev.kind = "KeyboardInput" /\ ev.state = "Pressed"
           /\ ev.key = "Escape" -> [exit |-> TRUE, window |-> win]
      [] ev.kind = "KeyboardInput" /\ ev.state = "Pressed"
           /\ ev.key = "F11" ->
           [exit |-> FALSE,
            window |-> [win EXCEPT !.fullscreen = ~win.fullscreen]]
      [] OTHER -> [exit |-> FALSE, window |-> win]

(* The closure of App::run on one event: whether it calls                  *)
(* control_flow.exit(), and the window afterwards.  request_redraw() asks  *)
(* the event loop for one more RedrawRequested event, an event the loop    *)
(* can hand to the closure at any time anyway.                             *)
HandleEvent(win, ev) ==
    IF ev.window = "own"
    THEN CASE ev.kind = "CloseRequested" -> [exit |-> TRUE, window |-> win]
           [] ev.kind = "RedrawRequested" -> [exit |-> FALSE, window |-> win]
           [] ev.kind = "KeyboardInput" /\ ev.state = "Pressed"
                /\ ev.key = "Escape" -> [exit |-> TRUE, window |-> win]
           [] ev.kind = "KeyboardInput" /\ ev.state = "Pressed"
                /\ ev.key = "F11" ->
                [exit |-> FALSE,
                 window |-> [win EXCEPT !.fullscreen = ~win.fullscreen]]
           [] OTHER -> [exit |-> FALSE, window |-> win]
    ELSE [exit |-> FALSE, window |-> win]

(* App::run is called: event_loop.run starts. *)
RunEnter ==
    /\ pc = "constructed"
    /\ pc' = "running"
    /\ UNCHANGED << lifetime, validation, objects, calls, step, handles,
                    answers, result, loopState, applied >>

(* A closure that destroys the first frame's semaphore on a redraw. *)
RunEvent_DestroysSemaphore ==
    /\ pc = "running"
    /\ ~exiting
    /\ \E ev \in Events :
        LET handled == HandleEvent(window, ev)
        IN  /\ event' = ev
            /\ window' = handled.window
            /\ exiting' = handled.exit
            /\ objects' = (IF ev.kind = "RedrawRequested"
                           THEN Destroy(objects, frames[1].swapchain_sem)
                           ELSE objects)
    /\ UNCHANGED << pc, lifetime, validation, calls, step, handles, answers,
                    result, applied >>

(* The event loop calls the closure with one event. *)
RunEvent ==
    /\ pc = "running"
    /\ ~exiting
    /\ \E ev \in Events :
        LET handled == HandleEvent(window, ev)
        IN  /\ event' = ev
            /\ window' = handled.window
            /\ exiting' = handled.exit
    /\ UNCHANGED << pc, lifetime, validation, objects, calls, step, handles,
                    answers, result, applied >>

(* After control_flow.exit() event_loop.run returns, the closure is gone,   *)
(* and the result is unwrapped; a panic of that unwrap unwinds into the    *)
(* owner of the App.                                                       *)
RunReturn ==
    /\ pc = "running"
    /\ exiting
    /\ pc' = "exited"
    /\ event' = NoEvent
    /\ \E ok \in BOOLEAN :
        result' = (IF ok THEN result ELSE Panic("EventLoopError"))
    /\ UNCHANGED << lifetime, validation, objects, calls, step, handles,
                    answers, window, exiting, applied >>

----------------------------------------------------------------------------
(* impl Drop for App. *)

(* The owner of the App goes out of scope, right after construction or    *)
(* after App::run returned: drop() is entered.                             *)
DropEnter ==
    /\ pc \in {"constructed", "exited"}
    /\ pc' = "drop"
    /\ step' = 1
    /\ UNCHANGED << lifetime, validation, objects, calls, handles, answers,
                    result >>
    /\ UNCHANGED << loopState, applied >>

(* Orders drop() could have been written in: the swap chain and the       *)
(* messenger moved, the device destroyed before the frames, the surface    *)
(* destroyed before the device.                                            *)
DropOrder_MessengerLate ==
    << "image_views", "swapchain", "frames", "device", "surface",
       "debug_messenger", "instance" >>

DropOrder_DeviceEarly ==
    << "image_views", "debug_messenger", "device", "frames", "swapchain",
       "surface", "instance" >>

DropOrder_SurfaceEarly ==
    << "image_views", "debug_messenger", "frames", "swapchain", "surface",
       "device", "instance" >>

(* The statements of drop(), in source order. *)
DropOrder ==
    << "image_views", "debug_messenger", "frames", "swapchain", "device",
       "surface", "instance" >>

AtDrop(statement) ==
    /\ pc = "drop"
    /\ step \in 1..Len(DropOrder)
    /\ DropOrder[step] = statement

(* Control moves to the next statement of drop(), or drop() returns. *)
DropAdvance ==
    /\ step' = step + 1
    /\ pc' = (IF step = Len(DropOrder) THEN "dropped" ELSE "drop")
    /\ UNCHANGED << lifetime, validation, handles, answers, result >>

CallsOn(op, hs) == [k \in 1..Len(hs) |-> Call(op, hs[k])]

DropImageViews ==
    /\ AtDrop("image_views")
    /\ objects' = DestroyAll(objects, swapchain.image_views)
    /\ calls' = calls \o CallsOn("destroy_image_view", swapchain.image_views)
    /\ DropAdvance
    /\ UNCHANGED << loopState, applied >>

(* self.debug_messenger.unwrap() panics when the messenger is None. *)
DropDebugMessenger ==
    /\ AtDrop("debug_messenger")
    /\ IF debug_instance.some
       THEN IF debug_messenger.some
            THEN /\ objects' = Destroy(objects, debug_messenger.value)
                 /\ calls' = Append(calls,
                        Call("destroy_debug_utils_messenger", debug_messenger.value))
                 /\ DropAdvance
            ELSE /\ pc' = "panicked"
                 /\ result' = Panic("unwrap on None")
                 /\ UNCHANGED << lifetime, validation, objects, calls, step,
                                 handles, answers >>
       ELSE /\ UNCHANGED << objects, calls >>
            /\ DropAdvance
    /\ UNCHANGED << loopState, applied >>

(* A copy-and-paste slip: the first semaphore twice, the second never. *)
FrameHandles_SameSemaphore(f) ==
    << f.swapchain_sem, f.swapchain_sem, f.command_pool >>

(* The three destroy calls of one iteration of the loop over self.frames. *)
FrameHandles(f) == << f.swapchain_sem, f.rendering_sem, f.command_pool >>

FrameDestroyCalls(f) ==
    << Call("destroy_semaphore", f.swapchain_sem),
       Call("destroy_semaphore", f.rendering_sem),
       Call("destroy_command_pool", f.command_pool) >>

RECURSIVE Flatten(_)
Flatten(ss) == IF ss = << >> THEN << >> ELSE Head(ss) \o Flatten(Tail(ss))

DropFrames ==
    /\ AtDrop("frames")
    /\ objects' = DestroyAll(objects,
            Flatten([k \in 1..Len(frames) |-> FrameHandles(frames[k])]))
    /\ calls' = calls \o
            Flatten([k \in 1..Len(frames) |-> FrameDestroyCalls(frames[k])])
    /\ DropAdvance
    /\ UNCHANGED << loopState, applied >>

DropSwapchain ==
    /\ AtDrop("swapchain")
    /\ objects' = Destroy(objects, swapchain.swapchain)
    /\ calls' = Append(calls, Call("destroy_swapchain", swapchain.swapchain))
    /\ DropAdvance
    /\ UNCHANGED << loopState, applied >>

DropDevice ==
    /\ AtDrop("device")
    /\ objects' = Destroy(objects, device)
    /\ calls' = Append(calls, Call("destroy_device", device))
    /\ DropAdvance
    /\ UNCHANGED << loopState, applied >>

DropSurface ==
    /\ AtDrop("surface")
    /\ objects' = Destroy(objects, surface)
    /\ calls' = Append(calls, Call("destroy_surface", surface))
    /\ DropAdvance
    /\ UNCHANGED << loopState, applied >>

DropInstance ==
    /\ AtDrop("instance")
    /\ objects' = Destroy(objects, instance)
    /\ calls' = Append(calls, Call("destroy_instance", instance))
    /\ DropAdvance
    /\ UNCHANGED << loopState, applied >>

(* A second, independent lifetime: App::new is called again after the      *)
(* first App was dropped.                                                  *)
NextLifetime ==
    /\ pc = "dropped"
    /\ lifetime < Lifetimes
    /\ lifetime' = lifetime + 1
    /\ pc' = "start"
    /\ step' = 1
    /\ calls' = << >>
    /\ instance' = NULL
    /\ debug_instance' = None
    /\ debug_messenger' = None
    /\ physical_device' = NULL
    /\ surface' = NULL
    /\ device' = NULL
    /\ swapchain' = NoSwapchain
    /\ frames' = << >>
    /\ result' = NoResult
    /\ window' = NewWindow
    /\ event' = NoEvent
    /\ exiting' = FALSE
    /\ UNCHANGED << validation, objects, answers, applied >>

----------------------------------------------------------------------------
Next ==
    \/ NewLoadEntry
    \/ NewRequiredExtensions
    \/ NewCreateInstance
    \/ NewDebugMessenger
    \/ NewPickPhysicalDevice
    \/ NewCreateSurface
    \/ NewFindQueueFamily
    \/ NewCreateDevice
    \/ SwapchainQuerySupport
    \/ SwapchainChooseFormat
    \/ SwapchainCreate
    \/ SwapchainGetImages
    \/ SwapchainCreateImageViews
    \/ NewPushFrame
    \/ NewReturn
    \/ RunEnter
    \/ RunEvent
    \/ RunReturn
    \/ DropEnter
    \/ DropImageViews
    \/ DropDebugMessenger
    \/ DropFrames
    \/ DropSwapchain
    \/ DropDevice
    \/ DropSurface
    \/ DropInstance
    \/ NextLifetime

Spec == Init /\ [][Next]_vars

(* The thread that runs App::run and drop() keeps running: once the event  *)
(* loop was told to exit, event_loop.run returns, the owner's scope ends   *)
(* and every statement of drop() is executed.                              *)
Teardown ==
    \/ RunReturn
    \/ DropEnter
    \/ DropImageViews
    \/ DropDebugMessenger
    \/ DropFrames
    \/ DropSwapchain
    \/ DropDevice
    \/ DropSurface
    \/ DropInstance

FairSpec == Spec /\ WF_vars(Teardown)

----------------------------------------------------------------------------
(* The functions of SwapchainSupportDetails and the debug callback applied *)
(* on their own, on every input of the bounded sets.                       *)

lifecycle ==
    << pc, lifetime, validation, objects, calls, step, handles, answers,
       result, loopState >>

(* The calls: a function and its arguments. *)
Applications ==
    [fn : {"choose_present_mode"}, returned : {FALSE},
     present_modes : PresentModeLists, preferred_present_mode : PresentModes]
    \cup [fn : {"choose_extent"}, returned : {FALSE},
          caps : SurfaceCapabilities, width : RequestedSizes,
          height : RequestedSizes]
    \cup [fn : {"debug_callback"}, returned : {FALSE},
          message_severity : SUBSET SeverityBits,
          message_type : SUBSET MessageTypeBits]

InitPure == InitApp /\ applied \in Applications

Called(fn) == applied.fn = fn /\ ~applied.returned

Returned(fn) == applied.fn = fn /\ applied.returned

ApplyChoosePresentMode ==
    /\ Called("choose_present_mode")
    /\ applied' =
           [fn |-> applied.fn, returned |-> TRUE,
            present_modes |-> applied.present_modes,
            preferred_present_mode |-> applied.preferred_present_mode,
            ret |-> choose_present_mode(applied.present_modes,
                                        applied.preferred_present_mode)]
    /\ UNCHANGED lifecycle

ApplyChooseExtent ==
    /\ Called("choose_extent")
    /\ applied' =
           [fn |-> applied.fn, returned |-> TRUE, caps |-> applied.caps,
            width |-> applied.width, height |-> applied.height,
            ret |-> choose_extent(applied.caps, applied.width,
                                  applied.height)]
    /\ UNCHANGED lifecycle

ApplyDebugCallback ==
    /\ Called("debug_callback")
    /\ applied' =
           [fn |-> applied.fn, returned |-> TRUE,
            message_severity |-> applied.message_severity,
            message_type |-> applied.message_type,
            ret |-> debug_callback(applied.message_severity,
                                   applied.message_type)]
    /\ UNCHANGED lifecycle

NextPure ==
    \/ ApplyChoosePresentMode
    \/ ApplyChooseExtent
    \/ ApplyDebugCallback

PureSpec == InitPure /\ [][NextPure]_vars

----------------------------------------------------------------------------
(* Teardown. *)

OpsOf(cs) == [k \in 1..Len(cs) |-> cs[k].op]

Repeat(s, n) == Flatten([k \in 1..n |-> s])

IsPrefix(s, t) == Len(s) <= Len(t) /\ \A k \in 1..Len(s) : s[k] = t[k]

FrameOps == << "destroy_semaphore", "destroy_semaphore", "destroy_command_pool" >>

MessengerOps ==
    IF debug_messenger.some THEN << "destroy_debug_utils_messenger" >> ELSE << >>

InTeardown == pc \in {"drop", "dropped"}

(* The order the specification gives. *)
SpecifiedOps ==
    Repeat(<< "destroy_image_view" >>, Len(swapchain.image_views))
        \o << "destroy_swapchain" >>
        \o Repeat(FrameOps, Len(frames))
        \o << "destroy_device", "destroy_surface" >>
        \o MessengerOps
        \o << "destroy_instance" >>

(* The order of the statements of drop(). *)
IssuedOps ==
    Repeat(<< "destroy_image_view" >>, Len(swapchain.image_views))
        \o MessengerOps
        \o Repeat(FrameOps, Len(frames))
        \o << "destroy_swapchain", "destroy_device", "destroy_surface",
              "destroy_instance" >>

DependsOn(kind) ==
    CASE kind = "image_view" -> {"swapchain", "device"}
      [] kind = "swapchain" -> {"device", "surface"}
      [] kind = "semaphore" -> {"device"}
      [] kind = "command_pool" -> {"device"}
      [] kind = "device" -> {"instance"}
      [] kind = "surface" -> {"instance"}
      [] kind = "debug_messenger" -> {"instance"}
      [] OTHER -> {}

(* The objects a step issues a destroy call on. *)
DestroyedInStep ==
    { h \in 1..Len(objects) :
        h <= Len(objects') /\ objects'[h].destroys > objects[h].destroys }

(* C2: no destroy call is issued on an object whose parent or dependency   *)
(* has already been destroyed: when a step destroys an object, every       *)
(* object it was created from is alive, and among them is one of each kind *)
(* the object depends on (swap chain and device for a view, device and     *)
(* surface for the swap chain, device for semaphores and command pools,    *)
(* instance for device, surface and messenger).                            *)
C2_ParentsAlive ==
    [][\A h \in DestroyedInStep :
          /\ \A p \in objects[h].parents : objects[p].alive
          /\ \A kind \in DependsOn(objects[h].kind) :
                \E p \in objects[h].parents : objects[p].kind = kind]_vars

C2_Witness ==
    /\ pc = "drop"
    /\ Len(swapchain.image_views) > 0
    /\ \A k \in 1..Len(swapchain.image_views) :
          ~objects[swapchain.image_views[k]].alive
    /\ objects[swapchain.swapchain].alive
    /\ objects[device].alive

(* The position of the first destroy call on handle h, 0 when none. *)
PositionOf(h) ==
    IF \E k \in 1..Len(calls) : calls[k].handle = h
    THEN CHOOSE k \in 1..Len(calls) :
            /\ calls[k].handle = h
            /\ \A j \in 1..(k - 1) : calls[j].handle # h
    ELSE 0

(* C3: during teardown the surface is destroyed after the logical device   *)
(* and before the instance: a destroyed surface means the device is gone   *)
(* and its destroy call came earlier, and a destroyed instance means the   *)
(* surface is gone and its destroy call came earlier; once drop() has      *)
(* returned all three are destroyed.                                       *)
C3_SurfaceAfterDeviceBeforeInstance ==
    InTeardown =>
        /\ ~objects[surface].alive =>
              /\ ~objects[device].alive
              /\ 0 < PositionOf(device)
              /\ PositionOf(device) < PositionOf(surface)
        /\ ~objects[instance].alive =>
              /\ ~objects[surface].alive
              /\ 0 < PositionOf(surface)
              /\ PositionOf(surface) < PositionOf(instance)
        /\ pc = "dropped" => ~objects[instance].alive

C3_Witness ==
    /\ pc = "drop"
    /\ ~objects[surface].alive
    /\ ~objects[device].alive
    /\ objects[instance].alive

(* The number of driver objects one successful App::new creates. *)
ObjectsOfApp ==
    4 + (IF debug_messenger.some THEN 1 ELSE 0)
      + Len(swapchain.image_views) + 4 * Len(frames)

(* The handles the fields of the App hold. *)
HandlesOfApp ==
    {instance, surface, device, swapchain.swapchain}
        \cup (IF debug_messenger.some THEN {debug_messenger.value} ELSE {})
        \cup Range(swapchain.image_views)
        \cup UNION { { frames[k].swapchain_sem, frames[k].rendering_sem,
                       frames[k].command_pool, frames[k].main_command_buffer }
                     : k \in 1..Len(frames) }

(* C4: teardown is total: no object is ever destroyed twice, and once      *)
(* drop() has returned every object App::new created (views, swap chain,   *)
(* semaphores, command pool and buffer of every frame, device, surface,    *)
(* messenger if attached, instance) has been destroyed exactly once, in    *)
(* the first lifetime and in the second.                                   *)
C4_TeardownTotal ==
    /\ \A h \in 1..Len(objects) :
          /\ objects[h].destroys <= 1
          /\ objects[h].alive <=> objects[h].destroys = 0
    /\ pc = "dropped" =>
          /\ \A h \in 1..Len(objects) : objects[h].destroys = 1
          /\ Cardinality(HandlesOfApp) = ObjectsOfApp
          /\ \A h \in HandlesOfApp : h \in 1..Len(objects)
          /\ Len(calls) = ObjectsOfApp - Len(frames)
          /\ \A kind \in {"instance", "surface", "device", "swapchain"} :
                Cardinality({ h \in 1..Len(objects) :
                                objects[h].kind = kind }) = lifetime

C4_Witness ==
    /\ pc = "dropped"
    /\ lifetime = Lifetimes
    /\ ~validation
    /\ Len(swapchain.image_views) = MaxMinImageCount + 1 + MaxExtraImages

----------------------------------------------------------------------------
(* Failures of construction. *)

ConstructionEnded == pc \in {"failed", "panicked"}

(* C5: when a creation step of App::new fails, every driver object the     *)
(* earlier steps created is released on that exit path: no object is       *)
(* alive after a failed construction.                                      *)
C5_NothingAliveAfterFailure ==
    ConstructionEnded => \A h \in 1..Len(objects) : ~objects[h].alive

(* C6: every failure during construction is returned to the caller of      *)
(* App::new as an error value: construction never ends in a panic.         *)
C6_FailuresAreReturned ==
    ConstructionEnded => pc = "failed" /\ result.tag = "Err"

----------------------------------------------------------------------------
(* Device and queue-family selection. *)

(* C7: device selection returns the NoDeviceFound error for an enumerated  *)
(* list of length 0 and picks no device; for every non-empty list it       *)
(* returns the first enumerated device, whatever the other entries are.    *)
C7_FirstDeviceOrNoDeviceFound ==
    devices.some =>
        IF Len(devices.value) = 0
        THEN /\ pc = "failed"
             /\ result = Err(NoDeviceFound)
             /\ physical_device = NULL
        ELSE /\ pc = "picked"
             /\ result = NoResult
             /\ physical_device = devices.value[1]

C7_Witness ==
    /\ devices.some
    /\ Len(devices.value) = 0
    /\ result = Err(NoDeviceFound)

GraphicsCapable(table) ==
    { k \in 1..Len(table) : "GRAPHICS" \in table[k].queue_flags }

SurfaceSupporting(table) ==
    { k \in 1..Len(table) : table[k].surface_support }

(* C8: for every queue-family table without a graphics-capable family, or  *)
(* without a family the surface-support query accepts, selection returns   *)
(* an error (IncompleteQueueFamilies) and no logical device is created.    *)
C8_IncompleteQueueFamilies ==
    (/\ families.some
     /\ \/ GraphicsCapable(families.value) = {}
        \/ SurfaceSupporting(families.value) = {})
        => /\ pc = "failed"
           /\ result.tag = "Err"
           /\ device = NULL

Min(S) == CHOOSE x \in S : \A y \in S : x <= y

(* C9, as claimed: the graphics index resolved is the smallest index, in   *)
(* enumeration order, of a family whose flags include graphics, whatever   *)
(* the queue counts of the families.                                       *)
C9_FirstGraphicsFamily ==
    (families.some /\ GraphicsCapable(families.value) # {})
        => /\ queue_family.some
           /\ queue_family.value = Min(GraphicsCapable(families.value)) - 1

(* The families a queue can be taken from: graphics and a queue count > 0. *)
UsableGraphics(table) ==
    { k \in GraphicsCapable(table) : table[k].queue_count > 0 }

(* C9, amended: the graphics index resolved is the smallest index, in      *)
(* enumeration order, of a family whose flags include graphics and whose   *)
(* queue count is greater than 0; no index is resolved when the table has  *)
(* no such family.                                                         *)
C9_FirstUsableGraphicsFamily ==
    families.some =>
        IF UsableGraphics(families.value) # {}
        THEN /\ queue_family.some
             /\ queue_family.value = Min(UsableGraphics(families.value)) - 1
        ELSE ~queue_family.some

C9_Witness ==
    /\ families.some
    /\ Len(families.value) = 2
    /\ GraphicsCapable(families.value) = {1, 2}
    /\ UsableGraphics(families.value) = {2}
    /\ queue_family = Some(1)
    /\ pc = "device"

----------------------------------------------------------------------------
(* Surface-format negotiation. *)

(* C10: for every sequence of supported formats, the empty one included,   *)
(* choose_surface_format returns a format: the preferred format when the   *)
(* sequence contains it, the element at index 0 otherwise.                 *)
C10_FormatForEverySequence ==
    (details.some /\ pc # "details")
        => /\ pc = "format"
           /\ surface_format =
                 (IF PreferredFormat \in Range(details.value.formats)
                  THEN PreferredFormat
                  ELSE details.value.formats[1])

----------------------------------------------------------------------------
(* Present-mode and extent negotiation. *)

(* C11: for every supported-present-mode sequence that contains the        *)
(* preferred mode choose_present_mode returns the preferred mode, for      *)
(* every other sequence it returns FIFO, and the mode returned is always   *)
(* an element of the supported sequence.                                   *)
C11_ReturnedModeIsSupported ==
    Returned("choose_present_mode") =>
        /\ IF applied.preferred_present_mode \in Range(applied.present_modes)
           THEN applied.ret = applied.preferred_present_mode
           ELSE applied.ret = "FIFO"
        /\ applied.ret \in Range(applied.present_modes)

MinOf(a, b) == IF a <= b THEN a ELSE b

MaxOf(a, b) == IF a >= b THEN a ELSE b

(* The value of [lo, hi] nearest to v, for lo <= hi. *)
Nearest(v, lo, hi) == MaxOf(lo, MinOf(v, hi))

(* C13, as claimed: for every capability that signals caller-defined       *)
(* sizing and every requested (w, h), choose_extent returns a width and a  *)
(* height that each lie within the reported [min, max] bounds, for every   *)
(* combination of reported min and max bounds.                             *)
C13_WithinBoundsForEveryBounds ==
    (Returned("choose_extent") /\ CallerDefined(applied.caps))
        => /\ applied.ret.some
           /\ applied.caps.min_image_extent.width <= applied.ret.value.width
           /\ applied.ret.value.width <= applied.caps.max_image_extent.width
           /\ applied.caps.min_image_extent.height <= applied.ret.value.height
           /\ applied.ret.value.height <= applied.caps.max_image_extent.height

OrderedBounds(caps) ==
    /\ caps.min_image_extent.width <= caps.max_image_extent.width
    /\ caps.min_image_extent.height <= caps.max_image_extent.height

(* What choose_extent does under caller-defined sizing: when the reported  *)
(* bounds have min <= max in both dimensions it returns the width of       *)
(* [min.width, max.width] nearest to w and the height of [min.height,      *)
(* max.height] nearest to h; when min > max in a dimension it panics.      *)
ClampedWithinOrderedBounds ==
    (Returned("choose_extent") /\ CallerDefined(applied.caps))
        => IF OrderedBounds(applied.caps)
           THEN /\ applied.ret.some
                /\ applied.ret.value.width =
                       Nearest(applied.width,
                               applied.caps.min_image_extent.width,
                               applied.caps.max_image_extent.width)
                /\ applied.ret.value.height =
                       Nearest(applied.height,
                               applied.caps.min_image_extent.height,
                               applied.caps.max_image_extent.height)
                /\ applied.caps.min_image_extent.width
                       <= applied.ret.value.width
                /\ applied.ret.value.width
                       <= applied.caps.max_image_extent.width
                /\ applied.caps.min_image_extent.height
                       <= applied.ret.value.height
                /\ applied.ret.value.height
                       <= applied.caps.max_image_extent.height
           ELSE ~applied.ret.some

----------------------------------------------------------------------------
(* Swapchain images and views. *)

(* Swapchain::new has succeeded and drop() has not started. *)
SwapchainBuilt == pc \in {"views", "constructed", "running", "exited"}

ImagesAndViews ==
    SwapchainBuilt =>
        LET chain == objects[swapchain.swapchain]
            views == swapchain.image_views
        IN  /\ Len(swapchain.images) = Len(views)
            /\ Len(views) >= chain.info.min_image_count
            /\ \A i \in 1..Len(views) :
                /\ objects[views[i]].kind = "image_view"
                /\ objects[views[i]].alive
                /\ objects[views[i]].info.image = swapchain.images[i]
                /\ objects[views[i]].info.format = chain.info.format
            /\ \A i, j \in 1..Len(views) : i # j => views[i] # views[j]

RequestedFromDetails ==
    (pc = "format" /\ pc' = "swapchain")
        => LET chain == objects'[swapchain'.swapchain]
           IN  /\ chain.info.min_image_count
                      = details.value.caps.min_image_count + 1
               /\ chain.info.format = surface_format.format

(* C14: after Swapchain::new succeeds, images and image_views have the     *)
(* same length, that length is the requested min_image_count               *)
(* (capabilities.min_image_count + 1) or the larger count the driver       *)
(* returned, image_views[i] is the view created for images[i] for every i, *)
(* and every view has the negotiated surface format.                       *)
C14_ImagesAndViews == []ImagesAndViews /\ [][RequestedFromDetails]_vars

C14_Witness ==
    /\ pc = "views"
    /\ objects[swapchain.swapchain].info.min_image_count = 2
    /\ Len(swapchain.images) = 3
    /\ Len(swapchain.image_views) = 3
    /\ objects[swapchain.image_views[3]].info.image = swapchain.images[3]
    /\ objects[swapchain.image_views[3]].info.format = "B8G8R8_UNORM"

----------------------------------------------------------------------------
(* Frames. *)

(* App::new has returned Ok and drop() has not started. *)
Constructed == pc \in {"constructed", "running", "exited"}

HandlesOfFrame(f) ==
    {f.swapchain_sem, f.rendering_sem, f.command_pool, f.main_command_buffer}

(* The live command buffers allocated from a pool. *)
BuffersOf(pool) ==
    { h \in 1..Len(objects) :
        /\ objects[h].kind = "command_buffer"
        /\ objects[h].alive
        /\ pool \in objects[h].parents }

(* C15: after the frames are created with count n = FRAMES_IN_FLIGHT,      *)
(* exactly n frames exist, each frame has its own command pool with        *)
(* exactly one command buffer allocated from it, and the two semaphores of *)
(* a frame are distinct handles, distinct from every handle of every other *)
(* frame.                                                                  *)
C15_FramesOwnDistinctResources ==
    Constructed =>
        /\ Len(frames) = FRAMES_IN_FLIGHT
        /\ \A i \in 1..Len(frames) :
            /\ objects[frames[i].command_pool].kind = "command_pool"
            /\ objects[frames[i].command_pool].alive
            /\ BuffersOf(frames[i].command_pool)
                   = {frames[i].main_command_buffer}
            /\ objects[frames[i].swapchain_sem].kind = "semaphore"
            /\ objects[frames[i].rendering_sem].kind = "semaphore"
            /\ objects[frames[i].swapchain_sem].alive
            /\ objects[frames[i].rendering_sem].alive
            /\ Cardinality(HandlesOfFrame(frames[i])) = 4
        /\ \A i, j \in 1..Len(frames) :
            i # j => HandlesOfFrame(frames[i]) \cap HandlesOfFrame(frames[j])
                        = {}

C15_Witness ==
    /\ pc = "constructed"
    /\ lifetime = 2
    /\ Len(frames) = 2
    /\ frames[1].command_pool # frames[2].command_pool
    /\ frames[1].rendering_sem # frames[2].swapchain_sem
    /\ BuffersOf(frames[2].command_pool) = {frames[2].main_command_buffer}

----------------------------------------------------------------------------
(* The event loop. *)

(* A close request or a press of Escape for the App's window. *)
ExitEvents ==
    { ev \in Events :
        /\ ev.window = "own"
        /\ \/ ev.kind = "CloseRequested"
           \/ /\ ev.kind = "KeyboardInput"
              /\ ev.key = "Escape"
              /\ ev.state = "Pressed" }

(* The closure handled an event: the loop is told to exit exactly when the *)
(* event is a close request or an Escape press for the App's window.       *)
ExitOnlyOnExitEvents ==
    (pc = "running" /\ pc' = "running")
        => /\ event' \in Events
           /\ exiting' <=> event' \in ExitEvents

AllDestroyed ==
    /\ \A h \in HandlesOfApp : h \in 1..Len(objects) /\ ~objects[h].alive
    /\ \A h \in 1..Len(objects) : ~objects[h].alive

(* C16: once the event loop receives a close request or an Escape key      *)
(* press for the App's window, the loop exits and teardown runs to         *)
(* completion: eventually every driver object owned by the App is          *)
(* destroyed; no other event (redraw request, F11, any other key, an event *)
(* for another window id) makes the loop exit.                             *)
C16_ExitLeadsToTeardown ==
    /\ (pc = "running" /\ event \in ExitEvents)
           ~> (pc = "dropped" /\ AllDestroyed)
    /\ [][ExitOnlyOnExitEvents]_vars

C16_Witness ==
    /\ pc = "dropped"
    /\ AllDestroyed
    /\ exiting
    /\ window.fullscreen
    /\ result = Ok
    /\ Len(objects) > 0

(* A step between the end of construction and the start of teardown.       *)
SteadyStateStep ==
    (Constructed /\ Constructed')
        => /\ objects' = objects
           /\ calls' = calls
           /\ handles' = handles
           /\ Len(frames') = FRAMES_IN_FLIGHT
           /\ \A h \in HandlesOfApp : objects'[h].alive

(* C17: between the end of construction and the start of teardown, any     *)
(* sequence of window events (close request, redraw request, key presses   *)
(* including Escape and F11) leaves the set of driver objects unchanged:   *)
(* no frame, semaphore, command pool, image view or swap chain is created  *)
(* or destroyed, and the number of frames stays FRAMES_IN_FLIGHT.          *)
C17_EventsLeaveObjectsAlone == [][SteadyStateStep]_vars

C17_Witness ==
    /\ pc = "running"
    /\ event.kind = "KeyboardInput"
    /\ event.key = "F11"
    /\ event.state = "Pressed"
    /\ window.fullscreen
    /\ Len(frames) = FRAMES_IN_FLIGHT
    /\ \A h \in HandlesOfApp : objects[h].alive

----------------------------------------------------------------------------
(* The diagnostics channel. *)

(* An App exists: App::new returned Ok; drop() may be running or done. *)
AppExists == pc \in {"constructed", "running", "exited", "drop", "dropped"}

MessengerObjects ==
    { h \in 1..Len(objects) : objects[h].kind = "debug_messenger" }

MessengerDestroyCalls ==
    { k \in 1..Len(calls) : calls[k].op = "destroy_debug_utils_messenger" }

(* C18: the debug-utils instance and the debug messenger are both present  *)
(* (validation enabled) or both absent (validation disabled) in every      *)
(* constructed App; with validation disabled no messenger is created and   *)
(* teardown issues no messenger destroy call; with validation enabled      *)
(* teardown destroys the messenger exactly once.                           *)
C18_DiagnosticsOptionalAsUnit ==
    /\ AppExists => /\ debug_instance.some <=> validation
                    /\ debug_messenger.some <=> validation
    /\ ~validation => /\ MessengerObjects = {}
                      /\ MessengerDestroyCalls = {}
    /\ (validation /\ pc = "dropped")
          => /\ Cardinality(MessengerDestroyCalls) = 1
             /\ \A k \in MessengerDestroyCalls :
                    calls[k].handle = debug_messenger.value
             /\ objects[debug_messenger.value].kind = "debug_messenger"
             /\ objects[debug_messenger.value].destroys = 1
             /\ Cardinality(MessengerObjects) = lifetime
             /\ \A h \in MessengerObjects : objects[h].destroys = 1

C18_Witness ==
    /\ pc = "dropped"
    /\ validation
    /\ lifetime = 2
    /\ Cardinality(MessengerDestroyCalls) = 1
    /\ Cardinality(MessengerObjects) = 2

(* C19: the debug callback maps the severity verbose to debug, info to     *)
(* info, warning to warn, error to error, and every other severity value,  *)
(* one with several severity bits set or with none included, to warn; it   *)
(* always returns FALSE to the driver.                                     *)
C19_SeverityToLevel ==
    Returned("debug_callback") =>
        LET severity == applied.message_severity
            level == applied.ret.log.level
        IN  /\ severity = {"VERBOSE"} => level = "Debug"
            /\ severity = {"INFO"} => level = "Info"
            /\ severity = {"WARNING"} => level = "Warn"
            /\ severity = {"ERROR"} => level = "Error"
            /\ Cardinality(severity) # 1 => level = "Warn"
            /\ applied.ret.log.message_type = applied.message_type
            /\ applied.ret.ret = VK_FALSE

C19_Witness ==
    /\ Returned("debug_callback")
    /\ applied.message_severity = {"VERBOSE", "ERROR"}
    /\ applied.message_type = {"VALIDATION"}
    /\ applied.ret.log.level = "Warn"
    /\ applied.ret.ret = VK_FALSE

----------------------------------------------------------------------------
(* The order of creation. *)

(* The kinds of object each creation call is given. *)
ParentKinds(kind) ==
    CASE kind = "instance" -> {}
      [] kind \in {"debug_messenger", "surface", "device"} -> {"instance"}
      [] kind = "swapchain" -> {"device", "surface"}
      [] kind = "image_view" -> {"device", "swapchain"}
      [] kind = "command_buffer" -> {"device", "command_pool"}
      [] kind \in {"command_pool", "semaphore"} -> {"device"}

(* The objects a step created. *)
CreatedInStep == (Len(objects) + 1)..Len(objects')

CreationUsesLiveObjects ==
    \A h \in CreatedInStep :
        /\ \A p \in objects'[h].parents :
              /\ p \in 1..(h - 1)
              /\ objects'[p].alive
        /\ { objects'[p].kind : p \in objects'[h].parents }
               = ParentKinds(objects'[h].kind)
        /\ objects'[h].kind = "instance"
              => \A k \in 1..Len(objects) : ~objects[k].alive
        /\ objects'[h].kind \in {"debug_messenger", "surface"}
              => objects'[h].parents = {instance}
        /\ objects'[h].kind = "device"
              => /\ physical_device # NULL
                 /\ objects'[h].parents = {instance}
        /\ objects'[h].kind = "swapchain"
              => objects'[h].parents = {device, surface}
        /\ objects'[h].kind \in {"image_view", "command_pool",
                                  "command_buffer", "semaphore"}
              => device \in objects'[h].parents

(* C20: during App::new every creation step uses only objects that were    *)
(* already created and are still alive: the instance is created first,     *)
(* the debug messenger and the surface only after the instance, the        *)
(* logical device only after the physical device is picked, the swap chain *)
(* only after both the surface and the logical device exist, and the       *)
(* frames only after the logical device exists.                            *)
C20_CreationOrder == [][CreationUsesLiveObjects]_vars

C20_Witness ==
    /\ pc = "constructed"
    /\ lifetime = 2
    /\ validation
    /\ objects[device].parents = {instance}
    /\ objects[swapchain.swapchain].parents = {device, surface}
    /\ objects[frames[2].main_command_buffer].parents
           = {device, frames[2].command_pool}
    /\ \A h \in HandlesOfApp : objects[h].alive

====
